---------------------------- MODULE Spec2Model ----------------------------
(***************************************************************************)
(* Model of src/kg_utils.py: the per-verb loop of extract_triplets and the *)
(* four post-processing helpers (merge_duplicate_subjs,                    *)
(* prune_infreq_subjects, prune_infreq_objects, prune_self_loops).         *)
(*                                                                         *)
(* Strings are sequences of code points (97 = "a", 32 = " "), so that      *)
(* lower(), strip(), join(), replace(), `in` and sorted() are computed.    *)
(* Token indices and span bounds are 0-based as in the source; TLA+        *)
(* sequences are 1-based, so token i of a sentence is sent[i + 1].         *)
(***************************************************************************)
EXTENDS Integers, Sequences, FiniteSets, TLC

VARIABLES
    title,             \* tokens of nlp(title)
    global_ents_list,  \* the caller's lowercase domain terms
    n_sents,           \* sentences taken from `sentences` so far
    sent,              \* tokens of the current sentence
    main_ents,         \* tier lists of the current sentence
    global_ents,
    noun_chunks,
    addn_ents,
    verbs,             \* verb token indices of the current sentence
    vnext,             \* position in `verbs` of the next verb (1-based)
    prev_subj,
    prev_obj,
    prev_obj_end,
    sro_triplets,
    pc,                \* "sentence" | "verb" | "returned" | "raised" | "post"
    last,              \* history: what the last verb step did
    triplets,          \* the DataFrame handed to the post-processing helpers
    call               \* history: the last post-processing call

extract_vars == <<title, global_ents_list, n_sents, sent, main_ents, global_ents,
                  noun_chunks, addn_ents, verbs, vnext, prev_subj, prev_obj,
                  prev_obj_end, sro_triplets, last>>
post_vars == <<triplets, call>>
vars == <<extract_vars, pc, post_vars>>

-----------------------------------------------------------------------------
(* Bounds of the model.                                                    *)

MaxTokens == 3
MaxSents == 2
MaxChunks == 1
MaxRows == 4

-----------------------------------------------------------------------------
(* Python string operations on sequences of code points.                   *)

\* str.lower() on ASCII letters
Lower(s) == [i \in DOMAIN s |-> IF s[i] >= 65 /\ s[i] <= 90 THEN s[i] + 32 ELSE s[i]]

RECURSIVE LStrip(_)
LStrip(s) == IF s # <<>> /\ Head(s) = 32 THEN LStrip(Tail(s)) ELSE s

RECURSIVE RStrip(_)
RStrip(s) == IF s # <<>> /\ s[Len(s)] = 32 THEN RStrip(SubSeq(s, 1, Len(s) - 1)) ELSE s

\* str.strip()
Strip(s) == RStrip(LStrip(s))

\* " ".join(parts)
RECURSIVE Join(_)
Join(parts) ==
    IF parts = <<>> THEN <<>>
    ELSE IF Len(parts) = 1 THEN parts[1]
    ELSE parts[1] \o <<32>> \o Join(Tail(parts))

\* `old` occurs in s at position i (1-based)
MatchAt(s, old, i) == i + Len(old) - 1 <= Len(s) /\ SubSeq(s, i, i + Len(old) - 1) = old

\* old in s
Contains(old, s) == \E i \in 1..(Len(s) + 1) : MatchAt(s, old, i)

\* s.replace(old, ''): every non-overlapping occurrence, left to right
RECURSIVE ReplaceFrom(_, _, _)
ReplaceFrom(s, old, i) ==
    IF i > Len(s) THEN <<>>
    ELSE IF old # <<>> /\ MatchAt(s, old, i) THEN ReplaceFrom(s, old, i + Len(old))
    ELSE <<s[i]>> \o ReplaceFrom(s, old, i + 1)

Replace(s, old) == ReplaceFrom(s, old, 1)

\* a < b in Python's string order
RECURSIVE StrLt(_, _)
StrLt(a, b) ==
    IF b = <<>> THEN FALSE
    ELSE IF a = <<>> THEN TRUE
    ELSE IF Head(a) # Head(b) THEN Head(a) < Head(b)
    ELSE StrLt(Tail(a), Tail(b))

\* sorted(list(S)) for a set S of strings
RECURSIVE Sorted(_)
Sorted(S) ==
    IF S = {} THEN <<>>
    ELSE LET m == CHOOSE x \in S : \A y \in S \ {x} : StrLt(x, y)
         IN <<m>> \o Sorted(S \ {m})

Range(s) == {s[i] : i \in DOMAIN s}

-----------------------------------------------------------------------------
(* The post-processing helpers.  A DataFrame is a sequence of rows         *)
(* [idx, subject, relation, object]; idx is the row's index label, which    *)
(* DataFrame.drop and the .loc assignments go by.                           *)

\* pd.DataFrame(rows, columns=[...]): a fresh RangeIndex 0..n-1
DataFrame(rows) ==
    [i \in DOMAIN rows |-> [idx |-> i - 1, subject |-> rows[i][1],
                            relation |-> rows[i][2], object |-> rows[i][3]]]

\* triplets.drop(labels): every row whose index label is among `labels` goes
Drop(df, labels) == SelectSeq(df, LAMBDA r : r.idx \notin labels)

\* triplets.subject.value_counts()[s]
SubjCount(df, s) == Cardinality({i \in DOMAIN df : df[i].subject = s})

ObjCount(df, o) == Cardinality({i \in DOMAIN df : df[i].object = o})

\* MergeRows without line 247: the relation is prefixed, the subject is kept
MergeRows_keep_subject(df, subj, prev) ==
    [i \in DOMAIN df |->
        IF df[i].subject = subj
        THEN [df[i] EXCEPT !.relation = Strip(Replace(subj, prev)) \o <<32>> \o @]
        ELSE df[i]]

\* the loop body of merge_duplicate_subjs for one `subj` that extends prev_subj
MergeRows(df, subj, prev) ==
    [i \in DOMAIN df |->
        IF df[i].subject = subj
        THEN [df[i] EXCEPT !.relation = Strip(Replace(subj, prev)) \o <<32>> \o @,
                           !.subject = prev]
        ELSE df[i]]

\* for subj in subjects[k:], with the cursor prev_subj
RECURSIVE MergeLoop(_, _, _, _)
MergeLoop(df, subjects, k, prev) ==
    IF k > Len(subjects) THEN df
    ELSE IF Contains(prev, subjects[k])
         THEN MergeLoop(MergeRows(df, subjects[k], prev), subjects, k + 1, prev)
         ELSE MergeLoop(df, subjects, k + 1, subjects[k])

\* merge_duplicate_subjs: [df, err]; subjects[0] raises IndexError on no subject
merge_duplicate_subjs(df) ==
    LET subjects == Sorted({df[i].subject : i \in DOMAIN df})
    IN IF subjects = <<>>
       THEN [df |-> df, err |-> "IndexError"]
       ELSE [df |-> MergeLoop(df, subjects, 2, subjects[1]), err |-> "none"]

\* prune_infreq_subjects dropping the counts at the threshold too
prune_infreq_subjects_le(df, threshold) ==
    LET subj_count == [i \in DOMAIN df |-> SubjCount(df, df[i].subject)]
    IN Drop(df, {df[i].idx : i \in {j \in DOMAIN df : subj_count[j] <= threshold}})

prune_infreq_subjects(df, threshold) ==
    LET subj_count == [i \in DOMAIN df |-> SubjCount(df, df[i].subject)]
    IN Drop(df, {df[i].idx : i \in {j \in DOMAIN df : subj_count[j] < threshold}})

\* prune_infreq_objects counting the subject column
prune_infreq_objects_by_subject(df, threshold) ==
    LET obj_count == [i \in DOMAIN df |-> SubjCount(df, df[i].subject)]
    IN Drop(df, {df[i].idx : i \in {j \in DOMAIN df : obj_count[j] < threshold}})

prune_infreq_objects(df, threshold) ==
    LET obj_count == [i \in DOMAIN df |-> ObjCount(df, df[i].object)]
    IN Drop(df, {df[i].idx : i \in {j \in DOMAIN df : obj_count[j] < threshold}})

prune_self_loops(df) ==
    Drop(df, {df[i].idx : i \in {j \in DOMAIN df : df[j].subject = df[j].object}})

-----------------------------------------------------------------------------
(* The annotated input of extract_triplets.  A token is what spaCy gives   *)
(* for it: text, lemma_, is_stop, is_punct, pos_ and (after the entities   *)
(* are merged into single tokens) the label of the entity it is.           *)

Tok(text, lemma, stop, pos, label) ==
    [text |-> text, lemma |-> lemma, is_stop |-> stop, is_punct |-> FALSE,
     pos |-> pos, label |-> label]

\* the tokens sentences are made of: the verbs "b" (a stop word, lemma "bb")
\* and "c", the ORG "A" and the DATE "E"
Lexicon ==
    { Tok(<<98>>, <<98, 98>>, TRUE, "VERB", ""),
      Tok(<<99>>, <<99>>, FALSE, "VERB", ""),
      Tok(<<65>>, <<97>>, FALSE, "PROPN", "ORG"),
      Tok(<<69>>, <<101>>, FALSE, "NOUN", "DATE") }

\* nlp(title): no token, or the one token "A"
Titles == { <<>>, <<Tok(<<65>>, <<97>>, FALSE, "PROPN", "ORG")>> }

\* global_ents_list: no term, or "b" and "e"
GlobalLists == { {}, {<<98>>, <<101>>} }

\* a Span of a Doc: [start, end) with the tokens it covers
Span(doc, toks, start, end) ==
    [doc |-> doc, start |-> start, end |-> end, toks |-> SubSeq(toks, start + 1, end)]

\* nlp("")[:]; each call of nlp makes a Doc of its own
EmptySpan(k) == Span(<<"empty", k>>, <<>>, 0, 0)

\* Span.__eq__: the same range of the same Doc
SpanEq(a, b) == a.doc = b.doc /\ a.start = b.start /\ a.end = b.end

\* span.text
SpanText(sp) == Join([i \in DOMAIN sp.toks |-> sp.toks[i].text])

\* the sentences the Annotation Adapter can give, of MaxTokens tokens
Sentences == [1..MaxTokens -> Lexicon]

\* [start, end) ranges over n tokens
Ranges(n) == {r \in (0..(n - 1)) \X (1..n) : r[1] < r[2]}

\* sent.noun_chunks: at most MaxChunks ranges, none overlapping another
ChunkSets(n) ==
    {C \in SUBSET Ranges(n) :
        /\ Cardinality(C) <= MaxChunks
        /\ \A a, b \in C : a = b \/ a[2] <= b[1] \/ b[2] <= a[1]}

\* a set of non-overlapping ranges in left-to-right order
RECURSIVE InOrder(_)
InOrder(C) ==
    IF C = {} THEN <<>>
    ELSE LET m == CHOOSE a \in C : \A b \in C : a[1] <= b[1]
         IN <<m>> \o InOrder(C \ {m})

\* the one-token spans of the tokens that satisfy `test`, left to right
TokenSpans(doc, toks, test(_)) ==
    LET idx == SelectSeq([i \in 1..Len(toks) |-> i - 1], LAMBDA i : test(toks[i + 1]))
    IN [k \in DOMAIN idx |-> Span(doc, toks, idx[k], idx[k] + 1)]

MainLabels == {"PERSON", "NORP", "FAC", "ORG", "GPE", "LOC", "PRODUCT", "EVENT",
               "WORK_OF_ART", "LAW", "LANGUAGE"}

AddnLabels == {"DATE", "TIME", "MONEY", "QUANTITY"}

IsContent(tok) == tok.is_stop = FALSE /\ tok.is_punct = FALSE

-----------------------------------------------------------------------------
(* The span search of one verb.  `found` is <<>> for None, or <<span>>.    *)

\* SubjLoop that keeps the first span it took instead of the last
RECURSIVE SubjLoop_keep_first(_, _, _, _, _)
SubjLoop_keep_first(tier, k, verb_i, lo, found) ==
    IF k > Len(tier) THEN found
    ELSE IF tier[k].end > verb_i THEN found
    ELSE IF tier[k].end > lo /\ found = <<>>
         THEN SubjLoop_keep_first(tier, k + 1, verb_i, lo, <<tier[k]>>)
    ELSE SubjLoop_keep_first(tier, k + 1, verb_i, lo, found)

\* for ent in tier: break at ent.end > verb.i, take ent when ent.end > prev_obj_end
RECURSIVE SubjLoop(_, _, _, _, _)
SubjLoop(tier, k, verb_i, lo, found) ==
    IF k > Len(tier) THEN found
    ELSE IF tier[k].end > verb_i THEN found
    ELSE IF tier[k].end > lo THEN SubjLoop(tier, k + 1, verb_i, lo, <<tier[k]>>)
    ELSE SubjLoop(tier, k + 1, verb_i, lo, found)

\* for ent in tier[::-1]: break at ent.end <= verb.i, else take ent
RECURSIVE ObjLoop(_, _, _, _)
ObjLoop(tier, k, verb_i, found) ==
    IF k < 1 THEN found
    ELSE IF tier[k].end <= verb_i THEN found
    ELSE ObjLoop(tier, k - 1, verb_i, <<tier[k]>>)

\* GlobalObjLoop without the check of line 157
GlobalObjLoop_any_text(tier, k, verb_i, verb_text, found) ==
    ObjLoop(tier, k, verb_i, found)

\* the same over global_ents, taking ent only when its text is not the verb's
RECURSIVE GlobalObjLoop(_, _, _, _, _)
GlobalObjLoop(tier, k, verb_i, verb_text, found) ==
    IF k < 1 THEN found
    ELSE IF tier[k].end <= verb_i THEN found
    ELSE IF Lower(SpanText(tier[k])) # Lower(verb_text)
         THEN GlobalObjLoop(tier, k - 1, verb_i, verb_text, <<tier[k]>>)
         ELSE GlobalObjLoop(tier, k - 1, verb_i, verb_text, found)

Found(found, tier) == [subj |-> found[1], rel_start |-> found[1].end, tier |-> tier]

\* Identify Subject: [subj, rel_start, tier]
IdentifySubject(main, glob, chunks, addn, default_subj, verb_i, lo) ==
    LET m == SubjLoop(main, 1, verb_i, lo, <<>>)
        g == SubjLoop(glob, 1, verb_i, lo, <<>>)
        c == SubjLoop(chunks, 1, verb_i, lo, <<>>)
        a == SubjLoop(addn, 1, verb_i, lo, <<>>)
    IN IF m # <<>> THEN Found(m, "Main")
       ELSE IF g # <<>> THEN Found(g, "Global")
       ELSE IF c # <<>> THEN Found(c, "NounChunk")
       ELSE IF a # <<>> THEN Found(a, "Additional")
       ELSE [subj |-> default_subj, rel_start |-> verb_i, tier |-> "Title"]

FoundObj(found, tier) == [obj |-> found[1], rel_end |-> found[1].start, tier |-> tier]

\* Identify Object: [obj, rel_end, tier]
IdentifyObject(main, glob, chunks, addn, prev, verb_i, verb_text) ==
    LET m == ObjLoop(main, Len(main), verb_i, <<>>)
        g == GlobalObjLoop(glob, Len(glob), verb_i, verb_text, <<>>)
        c == ObjLoop(chunks, Len(chunks), verb_i, <<>>)
        a == ObjLoop(addn, Len(addn), verb_i, <<>>)
    IN IF m # <<>> THEN FoundObj(m, "Main")
       ELSE IF g # <<>> THEN FoundObj(g, "Global")
       ELSE IF c # <<>> THEN FoundObj(c, "NounChunk")
       ELSE IF a # <<>> THEN FoundObj(a, "Additional")
       ELSE [obj |-> prev, rel_end |-> verb_i + 1, tier |-> "Prev"]

-----------------------------------------------------------------------------
(* The triplet of one verb.                                                *)

\* " ".join(tok.text.lower() for tok in span if not stop and not punct).strip()
EntText(sp) ==
    LET kept == SelectSeq(sp.toks, IsContent)
    IN Strip(Join([i \in DOMAIN kept |-> Lower(kept[i].text)]))

\* " ".join(tok.lemma_.lower() for tok in sent[rel_start:rel_end]
\*          if tok == verb or (not stop and not punct)).strip()
RelText(toks, rel_start, rel_end, verb_i) ==
    LET hi   == IF rel_end > Len(toks) THEN Len(toks) ELSE rel_end
        idx  == [k \in 1..(IF hi > rel_start THEN hi - rel_start ELSE 0) |-> rel_start + k - 1]
        kept == SelectSeq(idx, LAMBDA i : i = verb_i \/ IsContent(toks[i + 1]))
    IN Strip(Join([k \in DOMAIN kept |-> Lower(toks[kept[k] + 1].lemma)]))

\* IsValid without the last test of line 198
IsValid_self_loops(triplet) ==
    triplet[1] # <<>> /\ triplet[2] # <<>> /\ triplet[3] # <<>>

\* line 198: a valid S-R-O triplet
IsValid(triplet) ==
    triplet[1] # <<>> /\ triplet[2] # <<>> /\ triplet[3] # <<>> /\ triplet[1] # triplet[3]

\* line 200: a duplicate of the previous verb's spans
IsDuplicate(subj, obj, p_subj, p_obj) == SpanEq(subj, p_subj) /\ SpanEq(obj, p_obj)

\* lines 203-204: the longest relation among the duplicates
Longest(prev_triplet, triplet) ==
    IF Len(prev_triplet[2]) > Len(triplet[2]) THEN prev_triplet ELSE triplet

-----------------------------------------------------------------------------
(* extract_triplets as a state machine: one step per sentence taken from   *)
(* `sentences`, one per verb of it, and the return.                        *)

default_subj == Span(<<"title", 0>>, title, 0, Len(title))

NoStep ==
    [sent |-> 0, verb |-> 0, prevEnd |-> 0, subj |-> EmptySpan(1), subj_tier |-> "",
     obj |-> EmptySpan(2), obj_tier |-> "", p_subj |-> EmptySpan(1),
     p_obj |-> EmptySpan(2), triplet |-> <<>>, valid |-> FALSE, popped |-> FALSE,
     raised |-> FALSE, before |-> <<>>]

NoCall == [op |-> "", threshold |-> 0, arg |-> <<>>, err |-> "none"]

Init ==
    /\ title \in Titles
    /\ global_ents_list \in GlobalLists
    /\ n_sents = 0
    /\ sent = <<>>
    /\ main_ents = <<>>
    /\ global_ents = <<>>
    /\ noun_chunks = <<>>
    /\ addn_ents = <<>>
    /\ verbs = <<>>
    /\ vnext = 1
    /\ prev_subj = EmptySpan(1)
    /\ prev_obj = EmptySpan(2)
    /\ prev_obj_end = 0
    /\ sro_triplets = <<>>
    /\ pc = "sentence"
    /\ last = NoStep
    /\ triplets = <<>>
    /\ call = NoCall

\* lines 58-90 for one sentence: its tokens, tier lists and verbs
Annotate(doc, toks, C, glist) ==
    LET chunks == InOrder(C)
    IN [sent |-> toks,
        main_ents |-> TokenSpans(doc, toks, LAMBDA t : t.label \in MainLabels),
        addn_ents |-> TokenSpans(doc, toks, LAMBDA t : t.label \in AddnLabels),
        global_ents |-> TokenSpans(doc, toks, LAMBDA t : Lower(t.text) \in glist),
        noun_chunks |-> [k \in DOMAIN chunks |->
                            Span(doc, toks, chunks[k][1], chunks[k][2])],
        verbs |-> SelectSeq([i \in 1..Len(toks) |-> i - 1],
                            LAMBDA i : toks[i + 1].pos = "VERB")]

\* what nlp(sent) can be for the k-th sentence, by global_ents_list
Annotated ==
    [k \in 1..MaxSents |-> [glist \in GlobalLists |->
        {Annotate(<<"sent", k>>, toks, C, glist) :
            toks \in Sentences, C \in ChunkSets(MaxTokens)}]]

\* lines 55-90: the next sentence of `sentences`
NextSentence ==
    /\ pc = "sentence"
    /\ n_sents < MaxSents
    /\ \E a \in Annotated[n_sents + 1][global_ents_list] :
         /\ sent' = a.sent
         /\ main_ents' = a.main_ents
         /\ addn_ents' = a.addn_ents
         /\ global_ents' = a.global_ents
         /\ noun_chunks' = a.noun_chunks
         /\ verbs' = a.verbs
    /\ n_sents' = n_sents + 1
    /\ prev_obj_end' = 0
    /\ vnext' = 1
    /\ pc' = "verb"
    /\ UNCHANGED <<title, global_ents_list, prev_subj, prev_obj, sro_triplets, last,
                   post_vars>>

\* lines 101-213: the body of `for verb in verbs` for one verb
Verb ==
    /\ pc = "verb"
    /\ vnext <= Len(verbs)
    /\ LET verb_i  == verbs[vnext]
           s       == IdentifySubject(main_ents, global_ents, noun_chunks, addn_ents,
                                      default_subj, verb_i, prev_obj_end)
           o       == IdentifyObject(main_ents, global_ents, noun_chunks, addn_ents,
                                     prev_obj, verb_i, sent[verb_i + 1].text)
           triplet == <<EntText(s.subj),
                        RelText(sent, s.rel_start, o.rel_end, verb_i),
                        EntText(o.obj)>>
           valid   == IsValid(triplet)
           dup     == valid /\ IsDuplicate(s.subj, o.obj, prev_subj, prev_obj)
           raises  == dup /\ sro_triplets = <<>>
           step    == [sent |-> n_sents, verb |-> verb_i, prevEnd |-> prev_obj_end,
                       subj |-> s.subj, subj_tier |-> s.tier,
                       obj |-> o.obj, obj_tier |-> o.tier,
                       p_subj |-> prev_subj, p_obj |-> prev_obj,
                       triplet |-> triplet, valid |-> valid, popped |-> dup,
                       raised |-> raises, before |-> sro_triplets]
       IN /\ last' = step
          /\ IF raises
             THEN \* sro_triplets.pop() raises IndexError: pop from empty list
                  /\ pc' = "raised"
                  /\ UNCHANGED <<sro_triplets, prev_subj, prev_obj, prev_obj_end, vnext>>
             ELSE /\ sro_triplets' =
                        IF ~valid THEN sro_triplets
                        ELSE IF dup
                        THEN Append(SubSeq(sro_triplets, 1, Len(sro_triplets) - 1),
                                    Longest(sro_triplets[Len(sro_triplets)], triplet))
                        ELSE Append(sro_triplets, triplet)
                  /\ prev_subj' = s.subj
                  /\ prev_obj' = o.obj
                  /\ prev_obj_end' = o.obj.end
                  /\ vnext' = vnext + 1
                  /\ pc' = "verb"
    /\ UNCHANGED <<title, global_ents_list, n_sents, sent, main_ents, global_ents,
                   noun_chunks, addn_ents, verbs, post_vars>>

\* `for verb in verbs` is exhausted: the sentence's Doc and lists are dropped
EndSentence ==
    /\ pc = "verb"
    /\ vnext > Len(verbs)
    /\ pc' = "sentence"
    /\ sent' = <<>>
    /\ main_ents' = <<>>
    /\ global_ents' = <<>>
    /\ noun_chunks' = <<>>
    /\ addn_ents' = <<>>
    /\ verbs' = <<>>
    /\ vnext' = 1
    /\ last' = NoStep
    /\ UNCHANGED <<title, global_ents_list, n_sents, prev_subj, prev_obj, prev_obj_end,
                   sro_triplets, post_vars>>

\* lines 215-217: the DataFrame of the triplets, once `sentences` is exhausted
Return ==
    /\ pc = "sentence"
    /\ pc' = "returned"
    /\ triplets' = DataFrame(sro_triplets)
    /\ UNCHANGED <<extract_vars, call>>

Next == NextSentence \/ Verb \/ EndSentence \/ Return

Spec == Init /\ [][Next]_vars

-----------------------------------------------------------------------------
(* extract_triplets over one sentence of MaxWideTokens tokens: the same    *)
(* loop, with room for two verbs, a domain term and a span after them.     *)

MaxWideTokens == 4

\* the sentences of MaxWideTokens tokens
WideSentences == [1..MaxWideTokens -> Lexicon]

\* what nlp(sent) can be for such a sentence, by global_ents_list
WideAnnotated ==
    [glist \in GlobalLists |->
        {Annotate(<<"sent", 1>>, toks, C, glist) :
            toks \in WideSentences, C \in ChunkSets(MaxWideTokens)}]

\* lines 55-90: the one sentence of `sentences`
WideSentence ==
    /\ pc = "sentence"
    /\ n_sents = 0
    /\ \E a \in WideAnnotated[global_ents_list] :
         /\ sent' = a.sent
         /\ main_ents' = a.main_ents
         /\ addn_ents' = a.addn_ents
         /\ global_ents' = a.global_ents
         /\ noun_chunks' = a.noun_chunks
         /\ verbs' = a.verbs
    /\ n_sents' = n_sents + 1
    /\ prev_obj_end' = 0
    /\ vnext' = 1
    /\ pc' = "verb"
    /\ UNCHANGED <<title, global_ents_list, prev_subj, prev_obj, sro_triplets, last,
                   post_vars>>

WideNext == WideSentence \/ Verb \/ EndSentence \/ Return

WideSpec == Init /\ [][WideNext]_vars

-----------------------------------------------------------------------------
(* The post-processing helpers as a state machine of their own: any        *)
(* DataFrame of at most MaxRows rows, and any sequence of calls on it.     *)

\* "a", "a b", "b"
Subjects == { <<97>>, <<97, 32, 98>>, <<98>> }

\* "r"
Relations == { <<114>> }

\* "a", "b"
Objects == { <<97>>, <<98>> }

Thresholds == 0..(MaxRows + 1)

DataFrames ==
    {DataFrame(rows) :
        rows \in UNION {[1..n -> Subjects \X Relations \X Objects] : n \in 0..MaxRows}}

PostInit ==
    /\ title = <<>>
    /\ global_ents_list = {}
    /\ n_sents = 0
    /\ sent = <<>>
    /\ main_ents = <<>>
    /\ global_ents = <<>>
    /\ noun_chunks = <<>>
    /\ addn_ents = <<>>
    /\ verbs = <<>>
    /\ vnext = 1
    /\ prev_subj = EmptySpan(1)
    /\ prev_obj = EmptySpan(2)
    /\ prev_obj_end = 0
    /\ sro_triplets = <<>>
    /\ pc = "post"
    /\ last = NoStep
    /\ triplets \in DataFrames
    /\ call = NoCall

MergeDuplicateSubjs ==
    /\ pc = "post"
    /\ LET r == merge_duplicate_subjs(triplets)
       IN /\ triplets' = r.df
          /\ call' = [op |-> "merge_duplicate_subjs", threshold |-> 0,
                      arg |-> triplets, err |-> r.err]
          /\ pc' = IF r.err = "none" THEN "post" ELSE "raised"
    /\ UNCHANGED extract_vars

PruneInfreqSubjects ==
    /\ pc = "post"
    /\ \E threshold \in Thresholds :
         /\ triplets' = prune_infreq_subjects(triplets, threshold)
         /\ call' = [op |-> "prune_infreq_subjects", threshold |-> threshold,
                     arg |-> triplets, err |-> "none"]
    /\ UNCHANGED <<extract_vars, pc>>

PruneInfreqObjects ==
    /\ pc = "post"
    /\ \E threshold \in Thresholds :
         /\ triplets' = prune_infreq_objects(triplets, threshold)
         /\ call' = [op |-> "prune_infreq_objects", threshold |-> threshold,
                     arg |-> triplets, err |-> "none"]
    /\ UNCHANGED <<extract_vars, pc>>

PruneSelfLoops ==
    /\ pc = "post"
    /\ triplets' = prune_self_loops(triplets)
    /\ call' = [op |-> "prune_self_loops", threshold |-> 0, arg |-> triplets,
                err |-> "none"]
    /\ UNCHANGED <<extract_vars, pc>>

PostNext ==
    MergeDuplicateSubjs \/ PruneInfreqSubjects \/ PruneInfreqObjects \/ PruneSelfLoops

PostSpec == PostInit /\ [][PostNext]_vars

-----------------------------------------------------------------------------
(* Properties of the post-processing helpers, under PostSpec.              *)

\* C3: each post-processing step applied to an empty triplet collection
\* completes without error and returns an empty collection.
C3_EmptyIsNoOp ==
    (call.op # "" /\ call.arg = <<>>) => (call.err = "none" /\ triplets = <<>>)

\* the results of the three pruning steps in each of their six orders
PruneOrders(df, th) ==
    LET S(x) == prune_infreq_subjects(x, th)
        O(x) == prune_infreq_objects(x, th)
        L(x) == prune_self_loops(x)
    IN {L(O(S(df))), L(S(O(df))), O(L(S(df))), O(S(L(df))), S(L(O(df))), S(O(L(df)))}

\* C5 as claimed: for every collection and threshold the three pruning steps
\* give the same collection in whatever order they are applied.
C5_AnyOrderAnyThreshold ==
    \A th \in Thresholds : Cardinality(PruneOrders(triplets, th)) = 1

\* C5 as amended: the three pruning steps give the same collection in whatever
\* order they are applied when the threshold is at most 1.
C5_AnyOrderThresholdOne ==
    \A th \in Thresholds : th <= 1 => Cardinality(PruneOrders(triplets, th)) = 1

\* a frequency pruning with threshold 1 has run, and what it returned still
\* holds a self loop, a subject and an object that occur once
C5_Witness ==
    /\ call.op \in {"prune_infreq_subjects", "prune_infreq_objects"}
    /\ call.threshold = 1
    /\ prune_self_loops(triplets) # triplets
    /\ \E i \in DOMAIN triplets : SubjCount(triplets, triplets[i].subject) = 1
    /\ \E i \in DOMAIN triplets : ObjCount(triplets, triplets[i].object) = 1

\* C6: merge_duplicate_subjs is idempotent: applied to its own output for a
\* non-empty collection it changes no subject and no relation.
C6_MergeIdempotent ==
    (call.op = "merge_duplicate_subjs" /\ call.err = "none")
        => merge_duplicate_subjs(triplets) = [df |-> triplets, err |-> "none"]

\* a merge has run and rewrote a row
C6_Witness ==
    /\ call.op = "merge_duplicate_subjs"
    /\ call.err = "none"
    /\ triplets # call.arg

\* the rows of df whose `col` value occurs at least th times in df, in order
Frequent(df, col(_), th) ==
    SelectSeq(df, LAMBDA r : Cardinality({i \in DOMAIN df : col(df[i]) = col(r)}) >= th)

MaxCount(df, col(_)) ==
    LET counts == {Cardinality({i \in DOMAIN df : col(df[i]) = col(df[j])}) : j \in DOMAIN df}
    IN IF counts = {} THEN 0 ELSE CHOOSE c \in counts : \A d \in counts : d <= c

PrunedBy(col(_)) ==
    /\ triplets = Frequent(call.arg, col, call.threshold)
    /\ call.threshold = 1 => triplets = call.arg
    /\ call.threshold > MaxCount(call.arg, col) => triplets = <<>>

\* C9: prune_infreq_subjects (prune_infreq_objects on the object column) keeps,
\* in their original order, exactly the rows whose subject occurs at least
\* `threshold` times in the input; threshold 1 removes no row, a threshold above
\* the largest count removes every row.
C9_PruneKeepsFrequent ==
    /\ call.op = "prune_infreq_subjects" => PrunedBy(LAMBDA r : r.subject)
    /\ call.op = "prune_infreq_objects" => PrunedBy(LAMBDA r : r.object)

\* an object pruning removed some rows and kept others
C9_Witness ==
    /\ call.op = "prune_infreq_objects"
    /\ triplets # <<>>
    /\ Len(triplets) < Len(call.arg)

-----------------------------------------------------------------------------
(* Properties of extract_triplets, under Spec.  `last` is the record of the *)
(* verb step just taken (NoStep before the first verb of a sentence), so in *)
(* a step of Verb `last` is the preceding verb of the same sentence and     *)
(* last' the current one.                                                   *)

\* C1: every triplet in the collection has a non-empty subject, relation and
\* object, and its subject text differs from its object text; so has the row
\* the deduplication keeps.
C1_TripletsValid ==
    \A i \in DOMAIN sro_triplets :
        /\ sro_triplets[i][1] # <<>>
        /\ sro_triplets[i][2] # <<>>
        /\ sro_triplets[i][3] # <<>>
        /\ sro_triplets[i][1] # sro_triplets[i][3]

\* the deduplication popped a row and kept it in place of the verb's triplet
C1_Witness ==
    /\ last.popped
    /\ ~last.raised
    /\ sro_triplets[Len(sro_triplets)] # last.triplet
    /\ Len(sro_triplets) >= 2

\* C2: extract_triplets never fails while processing a verb; the deduplication
\* never pops from an empty collection.
C2_VerbNeverRaises == pc # "raised"

IsPrefix(a, b) == Len(a) <= Len(b) /\ SubSeq(b, 1, Len(a)) = a

Front(a) == SubSeq(a, 1, Len(a) - 1)

\* last' is the step of a verb whose predecessor in the sentence is `last`,
\* both accepted, with span-equal subjects and span-equal objects
ConsecutiveDuplicates ==
    /\ last' # last
    /\ last.sent = n_sents
    /\ last.valid /\ ~last.raised
    /\ last'.valid
    /\ SpanEq(last'.subj, last.subj)
    /\ SpanEq(last'.obj, last.obj)

\* C4: when two consecutive verbs of a sentence both yield an accepted triplet
\* with the same subject span and object span, the collection afterwards holds
\* one row for the pair (the row of the first verb is replaced, no row is
\* added): it has the pair's subject and object texts and the longer of the
\* relation of the row kept for the first verb and the relation of the second
\* verb's triplet, the second verb's when they are equally long.
C4_DuplicatesCollapse ==
    [][ConsecutiveDuplicates =>
          LET prev_row == sro_triplets[Len(sro_triplets)]
              row      == sro_triplets'[Len(sro_triplets')]
          IN /\ sro_triplets # <<>>
             /\ Len(sro_triplets') = Len(sro_triplets)
             /\ Front(sro_triplets') = Front(sro_triplets)
             /\ row[1] = last'.triplet[1] /\ row[3] = last'.triplet[3]
             /\ row[2] \in {prev_row[2], last'.triplet[2]}
             /\ Len(row[2]) >= Len(prev_row[2])
             /\ Len(row[2]) >= Len(last'.triplet[2])
             /\ Len(prev_row[2]) = Len(last'.triplet[2]) => row = last'.triplet
       ]_vars

TierNames == <<"Main", "Global", "NounChunk", "Additional">>

TierList(k) ==
    CASE k = 1 -> main_ents [] k = 2 -> global_ents [] k = 3 -> noun_chunks
      [] k = 4 -> addn_ents

\* the spans of tier k that end at or before the verb and after prevEnd
SubjCandidates(k) ==
    {sp \in Range(TierList(k)) : sp.end <= last.verb /\ sp.end > last.prevEnd}

ObjCandidates(k) ==
    {sp \in Range(TierList(k)) :
        /\ sp.end > last.verb
        /\ k = 2 => Lower(SpanText(sp)) # Lower(sent[last.verb + 1].text)}

C10_OnlyPreviousVerbsRowRemoved ==
    [][~IsPrefix(sro_triplets, sro_triplets') =>
          /\ last.sent = n_sents
          /\ last.valid /\ ~last.raised
          /\ SpanEq(last'.subj, last.subj)
          /\ SpanEq(last'.obj, last.obj)
       ]_vars

\* C11: within one sentence prev_obj_end never decreases from one processed
\* verb to the next: every verb step that completes sets it to the end index
\* of the object used for that verb, and that value is greater than or equal
\* to the value it had before the verb, whatever tiers the spans came from.
C11_PrevEndNeverDecreases ==
    [][(pc = "verb" /\ pc' = "verb" /\ vnext' = vnext + 1)
          => /\ prev_obj_end' = last'.obj.end
             /\ prev_obj_end' >= prev_obj_end]_vars

=============================================================================
